---- MODULE Spec2Model ----
(***************************************************************************)
(* Model of the shininghunter detection and control engine:                *)
(*   modules/auto_hunter.py     AutoHunter (worker loop, confirmation      *)
(*                              round, start / pause / stop / continue)    *)
(*   modules/image_analyzer.py  ImageAnalyzer (multi-reference matcher)    *)
(*   modules/gui_interface.py   MainGUI (control surface handlers)         *)
(*                                                                         *)
(* The specifications share the variables:                                *)
(*   Spec       the control surface thread and the worker threads          *)
(*   SpecRound  one worker running confirmation rounds, with the history   *)
(*              of every attempt of the round recorded                     *)
(*   SpecReferences  SpecRound with the reference images cleared at any    *)
(*              point of the run                                           *)
(*   SpecShared SpecRound with the region list, the reference list and     *)
(*              the Timeline editor used at any point of the run           *)
(*   SpecSnapshot  SpecRound with the pause snapshot written and imported  *)
(*   SpecEngine AutoHunter driven through start_hunting and stop_hunting   *)
(*   SpecCycle  the control surface and scheduled worker threads on a      *)
(*              Timeline without an analysis step                          *)
(*   SpecMatch  the matcher applied to bounded metric inputs               *)
(***************************************************************************)
EXTENDS Integers, Sequences, FiniteSets, TLC

\* ---------------------------------------------------------------- bounds
MaxThreads == 2      \* worker threads created in one behaviour
NumRegions == 2      \* regions in the registry
MaxRetry   == 2      \* largest retry_count drawn (the GUI accepts 0..5)
RunRetry   == 1      \* retry_count of the runs of Spec
MaxDelay   == 1      \* longest delay, in polls of _wait_with_cancel
MaxCount   == 2      \* cap on hunt_count and on the displayed count
NumRefs    == 2      \* reference images in the matcher specification
MaxLevel   == 1      \* metric values are 0, 2, .., 2*MaxLevel
MaxActions == 2      \* longest Timeline the operator builds during a run

Threads == 1..MaxThreads
Regions == 1..NumRegions

VARIABLES
    \* AutoHunter
    is_hunting,        \* self.is_hunting
    hunt_count,        \* self.hunt_count
    hunt_thread,       \* self.hunt_thread (0 = None)
    retry_count,       \* self.config['retry_count']
    timeline_actions,  \* the Timeline list (MainGUI.timeline_actions,
                       \* aliased by self.config['timeline_actions'])
    \* MainGUI
    is_paused,         \* self.is_paused
    hunt_count_var,    \* self.hunt_count_var
    gui_pc,            \* where the control surface thread is
    dialog,            \* result dialog: number of failed regions, -1 = closed
    \* worker threads
    nthreads,          \* threads created so far
    pc,                \* position of each worker in _hunt_loop
    idx,               \* 1-based index of the for loop over the Timeline
    wait_left,         \* polls left in _wait_with_cancel
    attempt,           \* attempt variable of _analyze_regions
    analysis_result,   \* dict returned by _analyze_regions
    \* ScreenshotManager
    screenshot_regions,\* the enabled regions of self.screenshot_regions
                       \* (the list holds every region of Regions)
    \* ImageAnalyzer
    reference_images,  \* names of the loaded references, insertion order
    thresholds,        \* self.thresholds
    metrics,           \* metrics of the current image against each reference
    analysis,          \* last result of analyze_image_multi_reference
    \* history
    round_log,         \* attempts of the current round (SpecRound only)
    \* pause snapshot
    pause_state,       \* the configs/pause_<time> folder written last
    snap_on,           \* whether the folder is recorded (it is where a
                       \* specification reads it back)
    log_on,            \* whether round_log is recorded
    req,               \* per live worker: the request (pause / stop) that
                       \* cleared is_hunting last while it was alive
    last_ctl,          \* control request handled last: pause / stop / none
                       \* (none: nothing since the last press of Start)
    last_done,         \* index of the Timeline action completed last
    resume_expect      \* per worker started by a resume, until it begins an
                       \* action: index of the action after last_done

engine_vars == <<is_hunting, hunt_count, hunt_thread, retry_count,
                 timeline_actions>>
gui_vars    == <<is_paused, hunt_count_var, gui_pc, dialog>>
worker_vars == <<nthreads, pc, idx, wait_left, attempt, analysis_result>>
match_vars  == <<reference_images, thresholds, metrics, analysis,
                 screenshot_regions>>
hist_vars   == <<round_log, log_on, req, last_ctl, last_done,
                 resume_expect>>
snap_vars   == <<pause_state, snap_on>>
vars == <<engine_vars, gui_vars, worker_vars, match_vars, hist_vars,
          snap_vars>>

\* ------------------------------------------------------------- utilities
RECURSIVE SeqMax(_), SeqMin(_)
SeqMax(s) ==
    IF Len(s) = 1 THEN s[1]
    ELSE LET m == SeqMax(Tail(s)) IN IF s[1] >= m THEN s[1] ELSE m

SeqMin(s) ==
    IF Len(s) = 1 THEN s[1]
    ELSE LET m == SeqMin(Tail(s)) IN IF s[1] <= m THEN s[1] ELSE m

Range(s) == {s[k] : k \in 1..Len(s)}

\* ------------------------------------------------- ImageAnalyzer (matcher)
\* Metric values: color_similarity and structural_similarity are even
\* numbers 0..2*MaxLevel (so that the mean of two is exact); Inf stands for
\* float('inf'), the failure value of calculate_color_difference.
Levels == {2 * k : k \in 0..MaxLevel}

\* 0.0, the failure value of compare_color_similarity and of
\* calculate_structural_similarity
FailureAsZero == 0

Inf    == 2 * MaxLevel + 2
Diffs  == Levels \cup {Inf}
RefNames == 1..NumRefs

NoAnalysis == [empty |-> TRUE]

\* analyze_image: one reference against the current image
analyze_image(m, th, name) ==
    [reference_name        |-> name,
     color_similarity      |-> m[name].cs,
     color_difference      |-> m[name].cd,
     structural_similarity |-> m[name].ss,
     overall_score         |-> (m[name].cs + m[name].ss) \div 2,
     is_match              |-> /\ m[name].cs >= th.color_similarity
                               /\ m[name].ss >= th.ssim_threshold
                               /\ m[name].cd <= th.color_difference]

MaxKeepsLater(a, b) == a.overall_score > b.overall_score

\* max(..., key=...) keeps the earlier of two elements with equal keys
MaxKeepsEarlier(a, b) == a.overall_score >= b.overall_score

\* max(all_results, key=overall_score): the first maximal element
RECURSIVE BestOf(_)
BestOf(rs) ==
    IF Len(rs) = 1 THEN rs[1]
    ELSE LET b == BestOf(Tail(rs))
         IN  IF MaxKeepsEarlier(rs[1], b) THEN rs[1] ELSE b

IsMatchPerReference(rs, th) ==
    \E k \in 1..Len(rs) : rs[k].is_match

IsMatchMulti(rs, th) ==
    /\ SeqMax([k \in 1..Len(rs) |-> rs[k].color_similarity])
          >= th.color_similarity
    /\ SeqMax([k \in 1..Len(rs) |-> rs[k].structural_similarity])
          >= th.ssim_threshold
    /\ SeqMin([k \in 1..Len(rs) |-> rs[k].color_difference])
          <= th.color_difference

analyze_image_multi_reference(refs, m, th) ==
    IF refs = <<>> THEN NoAnalysis
    ELSE LET all_results == [k \in 1..Len(refs) |-> analyze_image(m, th, refs[k])]
         IN  [empty                 |-> FALSE,
              best_reference        |-> BestOf(all_results).reference_name,
              color_similarity      |->
                  SeqMax([k \in 1..Len(refs) |-> all_results[k].color_similarity]),
              color_difference      |->
                  SeqMin([k \in 1..Len(refs) |-> all_results[k].color_difference]),
              structural_similarity |->
                  SeqMax([k \in 1..Len(refs) |-> all_results[k].structural_similarity]),
              overall_score         |->
                  SeqMax([k \in 1..Len(refs) |-> all_results[k].overall_score]),
              is_match              |-> IsMatchMulti(all_results, th),
              n_results             |-> Len(all_results)]


\* ------------------------------------------------------------- Timeline
Act(a, d) == [action |-> a, delay |-> d]

Actuations == {"reset", "quick_load", "confirm"}
Delays     == {"initial_delay", "custom_delay"}

\* Timelines the operator may have configured (never empty: start_auto_hunt
\* refuses an empty Timeline).  Delays are in polls of _wait_with_cancel.
Timelines ==
    { <<Act("reset", 1), Act("analysis", 1), Act("custom_delay", MaxDelay)>> }

\* retry_interval, in polls
RetryPolls == MaxDelay

\* ------------------------------------------- _analyze_regions (one attempt)
\* captured: regions capture_all_regions returned an image for
\* matched : captured regions whose analysis has is_match = true
RECURSIVE InOrder(_)
InOrder(S) ==
    IF S = {} THEN <<>>
    ELSE LET r == CHOOSE x \in S : \A y \in S : x <= y
         IN  <<r>> \o InOrder(S \ {r})

ImagePath(r, att) == <<"screenshot", r, att>>

AllSuccessAny(captured, matched) == matched # {}

AllSuccess(captured, matched) == captured \ matched = {}

SuccessCountCaptured(captured, matched) == Cardinality(captured)

\* success_count += 1 for every region whose analysis has is_match
SuccessCount(captured, matched) == Cardinality(matched)

FailedRegionsZeroBased(captured, matched, att) ==
    LET f == InOrder(captured \ matched)
    IN  [k \in 1..Len(f) |-> <<f[k], att>>]

\* failed_region_info = f"{name} (第{attempt + 1}次判断)"
FailedRegions(captured, matched, att) ==
    LET f == InOrder(captured \ matched)
    IN  [k \in 1..Len(f) |-> <<f[k], att + 1>>]

FailedImages(captured, matched, att) ==
    LET f == FailedRegions(captured, matched, att)
    IN  [k \in 1..Len(f) |-> <<f[k], ImagePath(f[k][1], att)>>]

AttemptCountZeroBased(att) == att

\* 'attempt_count': attempt + 1
AttemptCount(att) == att + 1

IsLastAttemptAny(att, k) == TRUE

\* attempt == retry_count, the last value of range(retry_count + 1)
IsLastAttempt(att, k) == att = k

\* synthetic entries of failed_regions
CaptureFailed == <<0, 0>>      \* '截图失败'
NoReference   == <<0, -1>>     \* '无参考图像'

NoResult ==
    [kind |-> "none", has_failure |-> FALSE, success_count |-> 0,
     failed_regions |-> <<>>, failed_images |-> <<>>,
     total_regions |-> -1, attempt_count |-> -1]

\* the three-key dicts returned on the early exits (no 'total_regions',
\* 'attempt_count' or 'failed_images' key)
ShortResult(entry) ==
    [kind |-> "short", has_failure |-> TRUE, success_count |-> 0,
     failed_regions |-> <<entry>>, failed_images |-> <<>>,
     total_regions |-> -1, attempt_count |-> -1]

SuccessResult(captured, matched, att) ==
    [kind |-> "full", has_failure |-> FALSE,
     success_count |-> SuccessCount(captured, matched),
     failed_regions |-> <<>>, failed_images |-> <<>>,
     total_regions |-> Cardinality(captured),
     attempt_count |-> AttemptCount(att)]

FailureResult(captured, matched, att, k) ==
    [kind |-> "full", has_failure |-> TRUE,
     success_count |-> SuccessCount(captured, matched),
     failed_regions |-> FailedRegions(captured, matched, att),
     failed_images |-> FailedImages(captured, matched, att),
     total_regions |-> Cardinality(captured),
     attempt_count |-> k + 1]


\* ------------------------------------------------------- worker: _hunt_loop
\* Positions of a worker thread:
\*   idle        not created            start       entry of _hunt_loop
\*   while       `while self.is_hunting`
\*   for_head    next iteration of the for loop, `if not self.is_hunting`
\*   act         inside a keyboard_controller call
\*   wait        in _wait_with_cancel after a Timeline action
\*   capture     in capture_all_regions / analysis of one attempt
\*   retry_wait  in _wait_with_cancel before a retry
\*   round_done  _analyze_regions has returned
\*   result_box  in messagebox.showinfo of _show_result_dialog, called by
\*               _handle_analysis_failure after it started the shiny BGM
\*   error_box   in messagebox.showerror of _handle_error
\*   except_box  the same, _handle_error called by the except clause after
\*               _handle_analysis_failure started the shiny BGM and raised
\*   finally     the finally clause      dead        thread finished
Alive(w) == pc[w] \notin {"idle", "dead"}

\* positions inside a call that does not poll is_hunting
Blocking == {"act", "capture", "result_box", "error_box", "except_box"}

Cur(w) == timeline_actions[idx[w]]

NextAfter(k) == IF k = 0 THEN 1 ELSE (k % Len(timeline_actions)) + 1

FirstIndexResumed(w) ==
    IF resume_expect[w] # 0 THEN resume_expect[w] ELSE 1

\* enumerate(timeline_actions) of a new call of _hunt_loop
FirstIndex(w) == 1

WaitIgnoresFlag(w) == wait_left[w] > 0

\* while time.time() - start_time < seconds and self.is_hunting
WaitContinues(w) == wait_left[w] > 0 /\ is_hunting

\* a worker that is sleeping out a delay, or is inside a blocking call
Settled(w) ==
    \/ ~Alive(w)
    \/ pc[w] \in Blocking
    \/ pc[w] \in {"wait", "retry_wait"} /\ WaitContinues(w)

HandleErrorKeepsFlag == is_hunting

\* _handle_error: self.is_hunting = False
HandleErrorFlag == FALSE

WStart(w) ==
    /\ pc[w] = "start"
    /\ IF timeline_actions = <<>>
       THEN /\ is_hunting' = HandleErrorFlag
            /\ pc' = [pc EXCEPT ![w] = "error_box"]
       ELSE /\ pc' = [pc EXCEPT ![w] = "while"]
            /\ UNCHANGED is_hunting
    /\ UNCHANGED <<hunt_count, hunt_thread, retry_count, timeline_actions,
                   gui_vars, nthreads, idx, wait_left, attempt,
                   analysis_result, match_vars, hist_vars, snap_vars>>

WWhile(w) ==
    /\ pc[w] = "while"
    /\ IF is_hunting
       THEN /\ pc' = [pc EXCEPT ![w] = "for_head"]
            /\ idx' = [idx EXCEPT ![w] = FirstIndex(w)]
       ELSE /\ pc' = [pc EXCEPT ![w] = "finally"]
            /\ idx' = [idx EXCEPT ![w] = 1]
    /\ UNCHANGED <<engine_vars, gui_vars, nthreads, wait_left, attempt,
                   analysis_result, match_vars, hist_vars, snap_vars>>

PassExhaustedEarly(w) == idx[w] >= Len(timeline_actions)

\* enumerate(timeline_actions) has no item left
PassExhausted(w) == idx[w] > Len(timeline_actions)

\* one iteration of the for loop up to the call that performs the action
WForHead(w) ==
    /\ pc[w] = "for_head"
    /\ IF PassExhausted(w) \/ ~is_hunting
       THEN /\ pc' = [pc EXCEPT ![w] = "while"]
            /\ UNCHANGED <<hunt_count_var, wait_left, attempt,
                           analysis_result, round_log, resume_expect>>
       ELSE /\ hunt_count_var' = hunt_count          \* _log_progress
            /\ resume_expect' = [resume_expect EXCEPT ![w] = 0]
            /\ IF Cur(w).action \in Delays
               THEN /\ pc' = [pc EXCEPT ![w] = "wait"]
                    /\ wait_left' = [wait_left EXCEPT ![w] = Cur(w).delay]
                    /\ UNCHANGED <<attempt, analysis_result, round_log>>
               ELSE IF Cur(w).action \in Actuations
               THEN /\ pc' = [pc EXCEPT ![w] = "act"]
                    /\ UNCHANGED <<wait_left, attempt, analysis_result,
                                   round_log>>
               ELSE IF reference_images = <<>>
               THEN /\ pc' = [pc EXCEPT ![w] = "round_done"]
                    /\ analysis_result' = [analysis_result EXCEPT ![w] =
                                              ShortResult(NoReference)]
                    /\ UNCHANGED <<wait_left, attempt, round_log>>
               ELSE /\ pc' = [pc EXCEPT ![w] = "capture"]
                    /\ attempt' = [attempt EXCEPT ![w] = 0]
                    /\ round_log' = [round_log EXCEPT ![w] = <<>>]
                    /\ UNCHANGED <<wait_left, analysis_result>>
    /\ UNCHANGED <<engine_vars, is_paused, gui_pc, dialog, nthreads, idx,
                   match_vars, log_on, snap_vars, req, last_ctl, last_done>>

\* reset_action / quick_load_save / confirm_action returns
WActuate(w) ==
    /\ pc[w] = "act"
    /\ \E ok \in BOOLEAN :
         IF ok
         THEN /\ pc' = [pc EXCEPT ![w] = "wait"]
              /\ wait_left' = [wait_left EXCEPT ![w] = Cur(w).delay]
              /\ UNCHANGED is_hunting
         ELSE /\ pc' = [pc EXCEPT ![w] = "error_box"]     \* _handle_error
              /\ is_hunting' = HandleErrorFlag
              /\ UNCHANGED wait_left
    /\ UNCHANGED <<hunt_count, hunt_thread, retry_count, timeline_actions,
                   gui_vars, nthreads, idx, attempt, analysis_result,
                   match_vars, hist_vars, snap_vars>>

\* one poll of _wait_with_cancel after a Timeline action
WWait(w) ==
    /\ pc[w] = "wait"
    /\ IF WaitContinues(w)
       THEN /\ wait_left' = [wait_left EXCEPT ![w] = @ - 1]
            /\ UNCHANGED <<pc, idx, last_done>>
       ELSE /\ pc' = [pc EXCEPT ![w] = "for_head"]
            /\ idx' = [idx EXCEPT ![w] = @ + 1]
            /\ last_done' = idx[w]
            /\ wait_left' = [wait_left EXCEPT ![w] = 0]
    /\ UNCHANGED <<engine_vars, gui_vars, nthreads, attempt, analysis_result,
                   match_vars, round_log, log_on, snap_vars, req, last_ctl,
                   resume_expect>>

\* one poll of _wait_with_cancel before a retry
WRetryWait(w) ==
    /\ pc[w] = "retry_wait"
    /\ IF WaitContinues(w)
       THEN /\ wait_left' = [wait_left EXCEPT ![w] = @ - 1]
            /\ UNCHANGED pc
       ELSE /\ pc' = [pc EXCEPT ![w] = "capture"]
            /\ wait_left' = [wait_left EXCEPT ![w] = 0]
    /\ UNCHANGED <<engine_vars, gui_vars, nthreads, idx, attempt,
                   analysis_result, match_vars, hist_vars, snap_vars>>

RangeExhaustedShort(att, k) == att + 1 >= k

\* range(retry_count + 1) has no value after att
RangeExhausted(att, k) == att >= k

Retry(w) ==
    /\ pc' = [pc EXCEPT ![w] = "retry_wait"]
    /\ attempt' = [attempt EXCEPT ![w] = @ + 1]
    /\ wait_left' = [wait_left EXCEPT ![w] = RetryPolls]
    /\ UNCHANGED analysis_result

Return(w, r) ==
    /\ pc' = [pc EXCEPT ![w] = "round_done"]
    /\ analysis_result' = [analysis_result EXCEPT ![w] = r]
    /\ attempt' = [attempt EXCEPT ![w] = 0]
    /\ UNCHANGED wait_left

\* the sets of regions that may come out with is_match = true: with no
\* reference, analyze_image_multi_reference returns {} for every region and
\* analysis.get('is_match', False) is False
MatchOutcomes(captured) ==
    IF reference_images = <<>> THEN {{}} ELSE SUBSET captured

\* one attempt of _analyze_regions: capture, analysis of every region, verdict
WCapture(w) ==
    /\ pc[w] = "capture"
    /\ \E captured \in SUBSET screenshot_regions :
       \E matched \in MatchOutcomes(captured) :
         LET att == attempt[w]
             k   == retry_count
         IN  /\ round_log' = [round_log EXCEPT ![w] =
                    IF log_on
                    THEN Append(@, [captured |-> captured, matched |-> matched])
                    ELSE @]
             /\ IF captured = {}
                THEN IF IsLastAttempt(att, k)
                     THEN Return(w, ShortResult(CaptureFailed))
                     ELSE Retry(w)
                ELSE IF AllSuccess(captured, matched)
                THEN Return(w, SuccessResult(captured, matched, att))
                ELSE IF RangeExhausted(att, k)
                THEN Return(w, FailureResult(captured, matched, att, k))
                ELSE Retry(w)
    /\ UNCHANGED <<engine_vars, gui_vars, nthreads, idx, match_vars, log_on, snap_vars,
                   req, last_ctl, last_done, resume_expect>>

\* the branch of _hunt_loop on analysis_result['has_failure']
WRoundDone(w) ==
    /\ pc[w] = "round_done"
    /\ LET r == analysis_result[w]
       IN  /\ hunt_count + r.success_count <= MaxCount
           /\ hunt_count' = hunt_count + r.success_count
           /\ IF r.has_failure
              THEN \* _handle_analysis_failure: is_hunting cleared, the
                   \* shiny BGM started, then _show_result_dialog; on a
                   \* three-key dict analysis_result['total_regions'] raises
                   \* KeyError, which the except clause of _hunt_loop hands
                   \* to _handle_error
                   /\ is_hunting' = FALSE
                   /\ pc' = [pc EXCEPT ![w] =
                                IF r.kind = "short" THEN "except_box"
                                ELSE "result_box"]
                   /\ UNCHANGED <<analysis_result, hunt_count_var, idx,
                                  last_done>>
              ELSE /\ hunt_count_var' = hunt_count'   \* on_hunt_progress
                   /\ pc' = [pc EXCEPT ![w] = "for_head"]
                   /\ idx' = [idx EXCEPT ![w] = @ + 1]
                   /\ last_done' = idx[w]
                   /\ analysis_result' = [analysis_result EXCEPT ![w] = NoResult]
                   /\ UNCHANGED is_hunting
    /\ round_log' = [round_log EXCEPT ![w] = <<>>]
    /\ UNCHANGED <<hunt_thread, retry_count, timeline_actions, is_paused,
                   gui_pc, dialog, nthreads, wait_left, attempt,
                   match_vars, log_on, snap_vars, req, last_ctl, resume_expect>>

\* the operator dismisses the message box; on_hunt_result opens the dialog
WResultBox(w) ==
    /\ pc[w] = "result_box"
    /\ pc' = [pc EXCEPT ![w] = "finally"]
    /\ dialog' = Len(analysis_result[w].failed_regions)
    /\ analysis_result' = [analysis_result EXCEPT ![w] = NoResult]
    /\ idx' = [idx EXCEPT ![w] = 1]
    /\ UNCHANGED <<engine_vars, is_paused, hunt_count_var, gui_pc, nthreads,
                   wait_left, attempt, match_vars, hist_vars, snap_vars>>

OnHuntStopSilent == hunt_count_var

\* the argument of on_hunt_stop in _handle_error, which MainGUI.on_hunt_stop
\* writes to hunt_count_var
OnHuntStopCount == hunt_count

\* the operator dismisses the error box; on_hunt_stop(self.hunt_count)
WErrorBox(w) ==
    /\ pc[w] \in {"error_box", "except_box"}
    /\ pc' = [pc EXCEPT ![w] = "finally"]
    /\ hunt_count_var' = OnHuntStopCount
    /\ idx' = [idx EXCEPT ![w] = 1]
    /\ analysis_result' = [analysis_result EXCEPT ![w] = NoResult]
    /\ UNCHANGED <<engine_vars, is_paused, gui_pc, dialog, nthreads,
                   wait_left, attempt, match_vars, hist_vars, snap_vars>>

WFinally(w) ==
    /\ pc[w] = "finally"
    /\ pc' = [pc EXCEPT ![w] = "dead"]
    /\ is_hunting' = FALSE
    /\ req' = [req EXCEPT ![w] = "none"]
    /\ resume_expect' = [resume_expect EXCEPT ![w] = 0]
    /\ UNCHANGED <<hunt_count, hunt_thread, retry_count, timeline_actions,
                   gui_vars, nthreads, idx, wait_left, attempt,
                   analysis_result, match_vars, round_log, log_on, snap_vars, last_ctl,
                   last_done>>

Worker(w) ==
    \/ WStart(w) \/ WWhile(w) \/ WForHead(w) \/ WActuate(w) \/ WWait(w)
    \/ WRetryWait(w) \/ WCapture(w) \/ WRoundDone(w) \/ WResultBox(w)
    \/ WErrorBox(w) \/ WFinally(w)


\* ------------------------------------------------ control surface (MainGUI)
\* threading.Thread(target=self._hunt_loop).start()
Spawn ==
    LET w == nthreads + 1
    IN  /\ nthreads' = w
        /\ hunt_thread' = w
        /\ pc' = [pc EXCEPT ![w] = "start"]

ShouldResetAlways == TRUE

\* start_auto_hunt: `if self.is_paused: ... else: reset_counter()`
ShouldReset == ~is_paused

\* start_auto_hunt, with start_hunting
GuiStart ==
    /\ gui_pc = "idle"
    /\ timeline_actions # <<>>
    /\ is_hunting \/ nthreads < MaxThreads
    /\ IF ShouldReset
       THEN hunt_count' = 0 /\ hunt_count_var' = 0
       ELSE UNCHANGED <<hunt_count, hunt_count_var>>
    /\ last_ctl' = "none"
    /\ IF is_hunting \/ reference_images = <<>>
       THEN \* start_hunting returns False
            UNCHANGED <<is_hunting, hunt_thread, is_paused, nthreads, pc,
                        resume_expect>>
       ELSE /\ is_hunting' = TRUE
            /\ Spawn
            /\ is_paused' = FALSE
            /\ resume_expect' = [resume_expect EXCEPT ![nthreads + 1] =
                                    IF is_paused THEN NextAfter(last_done)
                                    ELSE 0]
    /\ UNCHANGED <<retry_count, timeline_actions, gui_pc, dialog, idx,
                   wait_left, attempt, analysis_result, match_vars,
                   round_log, log_on, snap_vars, req, last_done>>

NoSnapshot == [empty |-> TRUE]

\* _save_pause_state: hunt_count.json takes the displayed count, and
\* screenshootposition.json lists every region of the registry with
\* "enabled": True
save_pause_state ==
    [empty            |-> FALSE,
     hunt_count       |-> hunt_count_var,
     references       |-> reference_images,
     thresholds       |-> thresholds,
     regions          |-> [r \in Regions |-> [name |-> r, enabled |-> TRUE]],
     timeline_actions |-> timeline_actions]

\* pause_auto_hunt, with pause_hunting, up to its message box
GuiPause ==
    /\ gui_pc = "idle"
    /\ is_hunting
    /\ is_hunting' = FALSE
    /\ is_paused' = TRUE
    /\ gui_pc' = "pause_box"
    /\ req' = [w \in Threads |-> IF Alive(w) THEN "pause" ELSE req[w]]
    /\ last_ctl' = "pause"
    /\ pause_state' = IF snap_on THEN save_pause_state ELSE pause_state
    /\ UNCHANGED <<hunt_count, hunt_thread, retry_count, timeline_actions,
                   hunt_count_var, dialog, worker_vars, match_vars,
                   round_log, log_on, snap_on, last_done, resume_expect>>

\* the operator dismisses "暂停成功"; by then every worker that polls
\* is_hunting (each 0.1 s) has polled it
GuiPauseOk ==
    /\ gui_pc = "pause_box"
    /\ \A w \in Threads : Settled(w)
    /\ gui_pc' = "idle"
    /\ UNCHANGED <<engine_vars, is_paused, hunt_count_var, dialog,
                   worker_vars, match_vars, hist_vars, snap_vars>>

\* the end of stop_hunting and of stop_auto_hunt
StopReturns ==
    /\ hunt_count_var' = hunt_count          \* on_hunt_stop(self.hunt_count)
    /\ is_paused' = FALSE
    /\ last_ctl' = "stop"
    /\ gui_pc' = "idle"

\* stop_auto_hunt, with stop_hunting up to the join
GuiStop ==
    /\ gui_pc = "idle"
    /\ IF ~is_hunting
       THEN /\ is_paused' = FALSE
            /\ last_ctl' = "stop"
            /\ UNCHANGED <<is_hunting, hunt_count_var, gui_pc, req>>
       ELSE /\ is_hunting' = FALSE
            /\ req' = [w \in Threads |-> IF Alive(w) THEN "stop" ELSE req[w]]
            /\ IF hunt_thread # 0 /\ pc[hunt_thread] # "dead"
               THEN /\ gui_pc' = "join"
                    /\ UNCHANGED <<hunt_count_var, is_paused, last_ctl>>
               ELSE StopReturns
    /\ UNCHANGED <<hunt_count, hunt_thread, retry_count, timeline_actions,
                   dialog, worker_vars, match_vars, round_log, log_on, snap_vars,
                   last_done, resume_expect>>

\* hunt_thread.join(timeout=2.0) returns because the thread has finished
GuiJoinDone ==
    /\ gui_pc = "join"
    /\ pc[hunt_thread] = "dead"
    /\ StopReturns
    /\ UNCHANGED <<engine_vars, dialog, worker_vars, match_vars, round_log,
                   log_on, snap_vars, req, last_done, resume_expect>>

\* hunt_thread.join(timeout=2.0) returns because 2 s have passed: the thread
\* is inside a call that does not poll is_hunting
GuiJoinTimeout ==
    /\ gui_pc = "join"
    /\ pc[hunt_thread] \in Blocking
    /\ StopReturns
    /\ UNCHANGED <<engine_vars, dialog, worker_vars, match_vars, round_log,
                   log_on, snap_vars, req, last_done, resume_expect>>

\* "这是错判，继续刷闪": _process_misjudge_without_images, continue_hunting
GuiMisjudge ==
    /\ gui_pc = "idle"
    /\ dialog >= 0
    /\ hunt_count_var + dialog <= MaxCount
    /\ is_hunting \/ nthreads < MaxThreads
    /\ hunt_count_var' = hunt_count_var + dialog
    /\ dialog' = -1
    /\ IF ~is_hunting
       THEN /\ is_hunting' = TRUE
            /\ Spawn
       ELSE UNCHANGED <<is_hunting, hunt_thread, nthreads, pc>>
    /\ UNCHANGED <<hunt_count, retry_count, timeline_actions, is_paused,
                   gui_pc, idx, wait_left, attempt, analysis_result,
                   match_vars, hist_vars, snap_vars>>

\* "确认闪光，停止刷闪": _handle_confirm_shiny
GuiConfirmShiny ==
    /\ gui_pc = "idle"
    /\ dialog >= 0
    /\ dialog' = -1
    /\ UNCHANGED <<engine_vars, is_paused, hunt_count_var, gui_pc,
                   worker_vars, match_vars, hist_vars, snap_vars>>

\* clear_reference_images, with clear_references: no test of is_hunting
GuiClearReferences ==
    /\ gui_pc = "idle"
    /\ reference_images # <<>>
    /\ reference_images' = <<>>
    /\ UNCHANGED <<engine_vars, gui_vars, worker_vars, thresholds, metrics,
                   analysis, screenshot_regions, hist_vars, snap_vars>>

\* toggle_region_status, with toggle_region: no test of is_hunting
GuiToggleRegion ==
    /\ gui_pc = "idle"
    /\ \E r \in Regions :
         screenshot_regions' = IF r \in screenshot_regions
                               THEN screenshot_regions \ {r}
                               ELSE screenshot_regions \cup {r}
    /\ UNCHANGED <<engine_vars, gui_vars, worker_vars, reference_images,
                   thresholds, metrics, analysis, hist_vars, snap_vars>>

\* add_timeline_action at position 'end': self.timeline_actions.append, on
\* the list object that start_auto_hunt handed to set_config; no test of
\* is_hunting
GuiAddTimelineAction ==
    /\ gui_pc = "idle"
    /\ Len(timeline_actions) < MaxActions
    /\ timeline_actions' = Append(timeline_actions,
                                  Act("custom_delay", MaxDelay))
    /\ UNCHANGED <<is_hunting, hunt_count, hunt_thread, retry_count,
                   gui_vars, worker_vars, match_vars, hist_vars, snap_vars>>

\* folder_import_config on the folder of the last pause snapshot: the
\* references are cleared and loaded again from the copied images, the
\* registry is cleared and every saved region with "enabled" true is added
\* (add_region enables it), the Timeline, the counts and the thresholds are
\* taken from the files; no test of is_hunting
GuiFolderImport ==
    /\ gui_pc = "idle"
    /\ ~pause_state.empty
    /\ reference_images' = pause_state.references
    /\ screenshot_regions' = {r \in DOMAIN pause_state.regions :
                                 pause_state.regions[r].enabled}
    /\ timeline_actions' = pause_state.timeline_actions
    /\ hunt_count_var' = pause_state.hunt_count
    /\ hunt_count' = pause_state.hunt_count
    /\ thresholds' = pause_state.thresholds
    /\ UNCHANGED <<is_hunting, hunt_thread, retry_count, is_paused, gui_pc,
                   dialog, worker_vars, metrics, analysis, hist_vars,
                   snap_vars>>

\* reset_hunt_count, with reset_counter: no test of is_hunting
GuiResetCount ==
    /\ gui_pc = "idle"
    /\ hunt_count' = 0
    /\ hunt_count_var' = 0
    /\ UNCHANGED <<is_hunting, hunt_thread, retry_count, timeline_actions,
                   is_paused, gui_pc, dialog, worker_vars, match_vars,
                   hist_vars, snap_vars>>

\* AutoHunter.start_hunting called on its own: _check_requirements tests the
\* regions and the references, not self.config['timeline_actions']
start_hunting ==
    /\ gui_pc = "idle"
    /\ nthreads < MaxThreads
    /\ IF is_hunting \/ Regions = {} \/ reference_images = <<>>
       THEN \* return False
            UNCHANGED <<is_hunting, hunt_thread, nthreads, pc, gui_pc>>
       ELSE /\ is_hunting' = TRUE
            /\ Spawn                         \* self.hunt_thread.start()
            /\ gui_pc' = "on_hunt_start"     \* the callback is still to come
    /\ UNCHANGED <<hunt_count, retry_count, timeline_actions, is_paused,
                   hunt_count_var, dialog, idx, wait_left, attempt,
                   analysis_result, match_vars, hist_vars, snap_vars>>

\* the rest of start_hunting after hunt_thread.start(): logger.info,
\* self.on_hunt_start() (MainGUI.on_hunt_start sets the status label) and
\* return True
on_hunt_start ==
    /\ gui_pc = "on_hunt_start"
    /\ gui_pc' = "idle"
    /\ UNCHANGED <<engine_vars, is_paused, hunt_count_var, dialog,
                   worker_vars, match_vars, hist_vars, snap_vars>>

\* ------------------------------------------------------------ specification
DefaultThresholds ==
    [color_similarity |-> 2 * MaxLevel, ssim_threshold |-> 2,
     color_difference |-> 2]

InitWorkers ==
    /\ pc = [w \in Threads |-> "idle"]
    /\ idx = [w \in Threads |-> 1]
    /\ wait_left = [w \in Threads |-> 0]
    /\ attempt = [w \in Threads |-> 0]
    /\ analysis_result = [w \in Threads |-> NoResult]

InitHistory ==
    /\ round_log = [w \in Threads |-> <<>>]
    /\ req = [w \in Threads |-> "none"]
    /\ last_ctl = "none"
    /\ last_done = 0
    /\ resume_expect = [w \in Threads |-> 0]

InitMatcher ==
    /\ reference_images = <<1>>
    /\ thresholds = DefaultThresholds
    /\ metrics = [n \in RefNames |-> [cs |-> 0, ss |-> 0, cd |-> 0]]
    /\ analysis = NoAnalysis
    /\ screenshot_regions = {1}

\* after AutoHunter.__init__ and MainGUI construction, with a Timeline,
\* a retry count, regions and a reference image configured
Init ==
    /\ is_hunting = FALSE
    /\ hunt_count = 0
    /\ hunt_thread = 0
    /\ retry_count = RunRetry
    /\ timeline_actions \in Timelines
    /\ is_paused = FALSE
    /\ hunt_count_var = 0
    /\ gui_pc = "idle"
    /\ dialog = -1
    /\ nthreads = 0
    /\ InitWorkers
    /\ InitMatcher
    /\ InitHistory
    /\ log_on = FALSE
    /\ pause_state = NoSnapshot
    /\ snap_on = FALSE

Next ==
    \/ GuiStart
    \/ GuiPause
    \/ GuiPauseOk
    \/ GuiStop
    \/ GuiJoinDone
    \/ GuiJoinTimeout
    \/ GuiMisjudge
    \/ GuiConfirmShiny
    \/ GuiResetCount
    \/ \E w \in Threads : Worker(w)

Spec == Init /\ [][Next]_vars

TypeOK ==
    /\ is_hunting \in BOOLEAN
    /\ hunt_count \in 0..MaxCount
    /\ hunt_count_var \in 0..MaxCount
    /\ nthreads \in 0..MaxThreads
    /\ hunt_thread \in 0..MaxThreads
    /\ \A w \in Threads : attempt[w] \in 0..retry_count


\* ------------------------------------------- specification of one round
\* One worker, started, running confirmation rounds over a Timeline made of
\* the Analysis action; pause_hunting may clear is_hunting at any point.
InitRunning ==
    /\ is_hunting = TRUE
    /\ hunt_count = 0
    /\ hunt_thread = 1
    /\ retry_count \in 0..MaxRetry
    /\ timeline_actions = <<Act("analysis", 1)>>
    /\ is_paused = FALSE
    /\ hunt_count_var = 0
    /\ gui_pc = "idle"
    /\ dialog = -1
    /\ nthreads = 1
    /\ pc = [w \in Threads |-> IF w = 1 THEN "start" ELSE "idle"]
    /\ idx = [w \in Threads |-> 1]
    /\ wait_left = [w \in Threads |-> 0]
    /\ attempt = [w \in Threads |-> 0]
    /\ analysis_result = [w \in Threads |-> NoResult]
    /\ reference_images = <<1>>
    /\ thresholds = DefaultThresholds
    /\ metrics = [n \in RefNames |-> [cs |-> 0, ss |-> 0, cd |-> 0]]
    /\ analysis = NoAnalysis
    /\ screenshot_regions \in (SUBSET Regions) \ {{}}
    /\ InitHistory
    /\ log_on = TRUE
    /\ pause_state = NoSnapshot

InitRound == InitRunning /\ snap_on = FALSE

NextRound ==
    \/ GuiPause
    \/ GuiPauseOk
    \/ WStart(1)
    \/ WWhile(1)
    \/ WForHead(1)
    \/ WRetryWait(1)
    \/ WCapture(1)
    \/ WRoundDone(1)
    \/ WResultBox(1)
    \/ WErrorBox(1)
    \/ WFinally(1)

SpecRound == InitRound /\ [][NextRound]_vars

\* the same, where the operator may also clear the reference images at any
\* point of the run
NextReferences == NextRound \/ GuiClearReferences

SpecReferences == InitRound /\ [][NextReferences]_vars

\* the same, where the operator may use the region list, the reference list
\* and the Timeline editor at any point of the run
NextShared ==
    \/ NextRound
    \/ WWait(1)
    \/ GuiClearReferences
    \/ GuiToggleRegion
    \/ GuiAddTimelineAction

SpecShared == InitRound /\ [][NextShared]_vars

\* ------------------------------------ specification of the pause snapshot
\* one worker running rounds; the operator pauses, which writes the snapshot,
\* and imports the snapshot folder
InitSnapshot == InitRunning /\ snap_on = TRUE

NextSnapshot == NextRound \/ GuiFolderImport

SpecSnapshot == InitSnapshot /\ [][NextSnapshot]_vars

\* ------------------------------------------ specification of the engine
\* AutoHunter driven through start_hunting and stop_hunting, from the state
\* after construction (config['timeline_actions'] = []) or after set_config
\* with a Timeline, with or without a loaded reference image
InitEngine ==
    /\ is_hunting = FALSE
    /\ hunt_count = 0
    /\ hunt_thread = 0
    /\ retry_count = RunRetry
    /\ timeline_actions \in Timelines \cup {<<>>}
    /\ is_paused = FALSE
    /\ hunt_count_var = 0
    /\ gui_pc = "idle"
    /\ dialog = -1
    /\ nthreads = 0
    /\ InitWorkers
    /\ reference_images \in {<<>>, <<1>>}
    /\ thresholds = DefaultThresholds
    /\ metrics = [n \in RefNames |-> [cs |-> 0, ss |-> 0, cd |-> 0]]
    /\ analysis = NoAnalysis
    /\ screenshot_regions = {1}
    /\ InitHistory
    /\ log_on = FALSE
    /\ pause_state = NoSnapshot
    /\ snap_on = FALSE

NextEngine ==
    \/ start_hunting
    \/ on_hunt_start
    \/ GuiStop
    \/ GuiJoinDone
    \/ GuiJoinTimeout
    \/ \E w \in Threads : Worker(w)

SpecEngine == InitEngine /\ [][NextEngine]_vars

\* ------------------------------- specification with a scheduled worker
\* A Timeline without an analysis step (a key press and a delay), so that a
\* run cycles without counting; every live worker thread is scheduled, and
\* the join of stop_hunting returns (it has a timeout).
CycleTimeline == <<Act("reset", 1), Act("custom_delay", MaxDelay)>>

InitCycle ==
    /\ is_hunting = FALSE
    /\ hunt_count = 0
    /\ hunt_thread = 0
    /\ retry_count = RunRetry
    /\ timeline_actions = CycleTimeline
    /\ is_paused = FALSE
    /\ hunt_count_var = 0
    /\ gui_pc = "idle"
    /\ dialog = -1
    /\ nthreads = 0
    /\ InitWorkers
    /\ InitMatcher
    /\ InitHistory
    /\ log_on = FALSE
    /\ pause_state = NoSnapshot
    /\ snap_on = FALSE

\* the steps of _hunt_loop that a Timeline without an analysis step takes
WorkerCycle(w) ==
    \/ WStart(w) \/ WWhile(w) \/ WForHead(w) \/ WActuate(w) \/ WWait(w)
    \/ WErrorBox(w) \/ WFinally(w)

NextCycle ==
    \/ GuiStart
    \/ GuiPause
    \/ GuiPauseOk
    \/ GuiStop
    \/ GuiJoinDone
    \/ GuiJoinTimeout
    \/ \E w \in Threads : WorkerCycle(w)

SpecCycle ==
    /\ InitCycle
    /\ [][NextCycle]_vars
    /\ \A w \in Threads : WF_vars(WorkerCycle(w))
    /\ WF_vars(GuiJoinDone \/ GuiJoinTimeout)

\* ----------------------------------------- specification of the matcher
\* the loaded references in insertion order; names are labels, so the orders
\* that differ by a renaming of the references are represented by the one
\* with increasing names (the metrics range over all assignments)
RefOrders ==
    {q \in UNION {[1..n -> RefNames] : n \in 1..NumRefs} :
        \A a, b \in 1..Len(q) : a < b => q[a] < q[b]}

MetricRecords == [cs : Levels, ss : Levels, cd : Diffs]

ThresholdSets ==
    [color_similarity : Levels, ssim_threshold : Levels,
     color_difference : Levels]

InitMatch ==
    /\ is_hunting = FALSE
    /\ hunt_count = 0
    /\ hunt_thread = 0
    /\ retry_count = RunRetry
    /\ timeline_actions \in Timelines
    /\ is_paused = FALSE
    /\ hunt_count_var = 0
    /\ gui_pc = "idle"
    /\ dialog = -1
    /\ nthreads = 0
    /\ InitWorkers
    /\ InitHistory
    /\ log_on = FALSE
    /\ pause_state = NoSnapshot
    /\ snap_on = FALSE
    /\ screenshot_regions = {1}
    /\ reference_images \in RefOrders
    /\ thresholds \in ThresholdSets
    /\ metrics \in [RefNames -> MetricRecords]
    /\ \A n \in RefNames \ Range(reference_images) :
           metrics[n] = [cs |-> 0, ss |-> 0, cd |-> 0]
    /\ analysis = NoAnalysis

\* analyze_image_multi_reference(current_image)
Analyze ==
    /\ analysis = NoAnalysis
    /\ analysis' = analyze_image_multi_reference(reference_images, metrics,
                                                 thresholds)
    /\ UNCHANGED <<engine_vars, gui_vars, worker_vars, reference_images,
                   thresholds, metrics, screenshot_regions, hist_vars, snap_vars>>

NextMatch == Analyze

SpecMatch == InitMatch /\ [][NextMatch]_vars


\* ================================================================ claims
\* An attempt of the round log: every captured region matched / some
\* captured region did not match.
AllPass(e)  == e.captured # {} /\ e.matched = e.captured
SomeFail(e) == e.captured \ e.matched # {}

RoundOver(w) == pc[w] = "round_done" /\ round_log[w] # <<>>

LastAttempt(w) == round_log[w][Len(round_log[w])]

\* C1 (SpecRound): as soon as an attempt captures regions and every one of
\* them matches, the round has returned: that attempt is the last one of the
\* round (no later capture, no retry wait), and the outcome has
\* has_failure = false, success_count = total_regions = the number of
\* captured regions, no failed region or image, and attempt_count = the
\* 1-based number of that attempt.
FastPath ==
    \A w \in Threads : \A j \in 1..Len(round_log[w]) :
        AllPass(round_log[w][j]) =>
            /\ j = Len(round_log[w])
            /\ pc[w] = "round_done"
            /\ analysis_result[w].has_failure = FALSE
            /\ analysis_result[w].success_count =
                  Cardinality(round_log[w][j].captured)
            /\ analysis_result[w].total_regions =
                  analysis_result[w].success_count
            /\ analysis_result[w].failed_regions = <<>>
            /\ analysis_result[w].failed_images = <<>>
            /\ analysis_result[w].attempt_count = j

\* a round that passed on its second attempt, with every region captured
FastPathWitness ==
    \E w \in Threads :
        /\ RoundOver(w)
        /\ Len(round_log[w]) = 2
        /\ SomeFail(round_log[w][1])
        /\ AllPass(round_log[w][2])
        /\ round_log[w][2].captured = Regions

\* C2 (SpecRound): for every retry_count k, a finished round in which some
\* region failed on every attempt made exactly k+1 attempts and returns
\* has_failure = true with attempt_count = k+1; a finished round whose first
\* all-pass attempt is the j-th (1-based, j <= k+1) returns
\* has_failure = false with attempt_count = j.
BoundedRetry ==
    \A w \in Threads :
        RoundOver(w) =>
            /\ (\A j \in 1..Len(round_log[w]) : SomeFail(round_log[w][j]))
                  => /\ Len(round_log[w]) = retry_count + 1
                     /\ analysis_result[w].has_failure
                     /\ analysis_result[w].attempt_count = retry_count + 1
            /\ \A j \in 1..Len(round_log[w]) :
                  ( /\ AllPass(round_log[w][j])
                    /\ \A i \in 1..(j - 1) : ~AllPass(round_log[w][i]) )
                  => /\ j <= retry_count + 1
                     /\ ~analysis_result[w].has_failure
                     /\ analysis_result[w].attempt_count = j

\* a round of MaxRetry + 1 attempts, each with a failing region
BoundedRetryWitness ==
    \E w \in Threads :
        /\ RoundOver(w)
        /\ retry_count = MaxRetry
        /\ Len(round_log[w]) = MaxRetry + 1
        /\ \A j \in 1..Len(round_log[w]) : SomeFail(round_log[w][j])
        /\ analysis_result[w].has_failure

\* C3 (SpecRound): a finished round has has_failure = false only if its last
\* attempt is one in which all the captured regions matched together; a
\* round without such an attempt ends with has_failure = true after
\* retry_count + 1 attempts, even when every region matched in some attempt.
Unanimity ==
    \A w \in Threads :
        RoundOver(w) =>
            /\ ~analysis_result[w].has_failure => AllPass(LastAttempt(w))
            /\ (\A j \in 1..Len(round_log[w]) : ~AllPass(round_log[w][j]))
                  => /\ analysis_result[w].has_failure
                     /\ Len(round_log[w]) = retry_count + 1

\* region 1 passes only in attempt 1, region 2 only in attempt 2: failure
UnanimityWitness ==
    \E w \in Threads :
        /\ RoundOver(w)
        /\ Len(round_log[w]) = 2
        /\ round_log[w][1] = [captured |-> {1, 2}, matched |-> {1}]
        /\ round_log[w][2] = [captured |-> {1, 2}, matched |-> {2}]
        /\ analysis_result[w].has_failure

\* the evidence of a failed round is that of its last attempt
EvidenceOfLastAttempt(w) ==
    LET failed == LastAttempt(w).captured \ LastAttempt(w).matched
        r      == analysis_result[w]
    IN  /\ Range(r.failed_regions) = {<<x, retry_count + 1>> : x \in failed}
        /\ Len(r.failed_regions) = Cardinality(failed)
        /\ Range(r.failed_images) =
              {<<<<x, retry_count + 1>>, ImagePath(x, retry_count)>> :
                  x \in failed}
        /\ Len(r.failed_images) = Cardinality(failed)
        /\ r.success_count = Cardinality(LastAttempt(w).matched)

\* C4 as stated (SpecRound): whenever a round ends with has_failure = true
\* after retry_count + 1 attempts, failed_regions are exactly the regions
\* that failed in the last attempt, annotated retry_count + 1, failed_images
\* their image paths, success_count the number matched in the last attempt.
LastAttemptEvidenceAlways ==
    \A w \in Threads :
        ( /\ RoundOver(w)
          /\ analysis_result[w].has_failure
          /\ Len(round_log[w]) = retry_count + 1 )
        => EvidenceOfLastAttempt(w)

\* C4 amended (SpecRound): the same, for the rounds whose last attempt
\* captured at least one region (a last attempt whose capture failed returns
\* the synthetic capture-failed entry instead).
LastAttemptEvidence ==
    \A w \in Threads :
        ( /\ RoundOver(w)
          /\ analysis_result[w].has_failure
          /\ Len(round_log[w]) = retry_count + 1
          /\ LastAttempt(w).captured # {} )
        => EvidenceOfLastAttempt(w)

\* region 1 failed in attempt 1 only, region 2 in the last attempt only
LastAttemptEvidenceWitness ==
    \E w \in Threads :
        /\ RoundOver(w)
        /\ Len(round_log[w]) = 2
        /\ round_log[w][1] = [captured |-> {1, 2}, matched |-> {2}]
        /\ round_log[w][2] = [captured |-> {1, 2}, matched |-> {1}]
        /\ analysis_result[w].failed_regions = <<<<2, 2>>>>

\* C5 (SpecMatch): for a non-empty reference set, is_match holds iff some
\* reference reaches the color_similarity threshold, some reference reaches
\* the ssim threshold and some reference is within the color_difference
\* threshold; the reported metrics are the largest color_similarity, the
\* largest structural_similarity and the smallest color_difference.
MultiReferenceVerdict ==
    analysis # NoAnalysis =>
        LET R == Range(reference_images)
        IN  /\ analysis.is_match <=>
                 /\ \E n \in R : metrics[n].cs >= thresholds.color_similarity
                 /\ \E n \in R : metrics[n].ss >= thresholds.ssim_threshold
                 /\ \E n \in R : metrics[n].cd <= thresholds.color_difference
            /\ \E n \in R : analysis.color_similarity = metrics[n].cs
            /\ \A n \in R : analysis.color_similarity >= metrics[n].cs
            /\ \E n \in R : analysis.structural_similarity = metrics[n].ss
            /\ \A n \in R : analysis.structural_similarity >= metrics[n].ss
            /\ \E n \in R : analysis.color_difference = metrics[n].cd
            /\ \A n \in R : analysis.color_difference <= metrics[n].cd

\* a match that no single reference gives: the three thresholds are met by
\* different references
MultiReferenceVerdictWitness ==
    /\ analysis # NoAnalysis
    /\ analysis.is_match
    /\ Len(reference_images) = 2
    /\ \A n \in Range(reference_images) :
          ~analyze_image(metrics, thresholds, n).is_match

\* C6 as stated (Spec): at most one worker thread is inside a Timeline
\* action (actuation, wait, capture or analysis) of _hunt_loop.
InAction == {"act", "wait", "capture", "retry_wait", "round_done"}

SingleWorker ==
    Cardinality({w \in Threads : pc[w] \in InAction}) <= 1

\* C7 as stated (Spec): a worker that was alive when stop_hunting cleared
\* is_hunting sleeps no further poll of a wait and begins no further
\* Timeline action before it terminates.
StopCancels ==
    [][\A w \in Threads :
          req[w] = "stop" =>
             /\ pc[w] \in {"wait", "retry_wait"} /\ pc'[w] = pc[w]
                   => wait_left'[w] = wait_left[w]
             /\ pc[w] = "for_head"
                   => pc'[w] \notin {"act", "wait", "capture", "round_done"}
      ]_vars

\* C8 (Spec): a press of Start that follows a pause leaves hunt_count as it
\* is; a press of Start that follows a stop sets hunt_count to 0, and the
\* worker it creates has not begun _hunt_loop yet.
PauseResumeCount ==
    [][ /\ (last_ctl = "pause" /\ last_ctl' = "none")
              => hunt_count' = hunt_count
        /\ (last_ctl = "stop" /\ last_ctl' = "none")
              => /\ hunt_count' = 0
                 /\ \A w \in Threads :
                       pc[w] = "idle" /\ pc'[w] # "idle" => pc'[w] = "start"
      ]_vars

\* a worker started by a resume, with the count of the paused run kept
PauseResumeCountWitness ==
    \E w \in Threads :
        /\ pc[w] = "start"
        /\ resume_expect[w] # 0
        /\ hunt_count > 0

FirstActionAfterResume(w) ==
    resume_expect[w] # 0 /\ resume_expect'[w] = 0 /\ pc'[w] # "dead"

\* C10 as stated (Spec): the first action a worker started by a resume
\* begins is the one after the action completed last before the pause.
ResumeContinuesCycle ==
    [][\A w \in Threads :
          FirstActionAfterResume(w) => idx[w] = resume_expect[w]]_vars

\* C10 amended (Spec): the first action a worker started by a resume begins
\* is the first action of the Timeline.
ResumeRestartsCycle ==
    [][\A w \in Threads : FirstActionAfterResume(w) => idx[w] = 1]_vars

\* a resumed worker about to begin action 1 although the action completed
\* last before the pause was not the last one of the Timeline
ResumeRestartsCycleWitness ==
    \E w \in Threads :
        /\ resume_expect[w] \notin {0, 1}
        /\ pc[w] = "for_head"
        /\ idx[w] = 1
        /\ is_hunting

\* C11 (Spec): an actuation call either succeeds (the worker waits the
\* delay of the same action) or fails; on failure the worker is in
\* _handle_error with is_hunting cleared, from there (as from every call
\* of _handle_error) it only reports the
\* current hunt_count through on_hunt_stop, runs the finally clause and
\* ends: it repeats no actuation and begins no later Timeline action.
ActuationFailureFatal ==
    [][\A w \in Threads :
          /\ pc[w] = "act" /\ pc'[w] # "act"
                => \/ pc'[w] = "wait" /\ idx'[w] = idx[w]
                   \/ pc'[w] = "error_box" /\ ~is_hunting'
          /\ pc[w] \in {"error_box", "except_box"} /\ pc'[w] # pc[w]
                => /\ pc'[w] = "finally"
                   /\ hunt_count' = hunt_count
                   /\ hunt_count_var' = hunt_count
          /\ pc[w] = "finally" /\ pc'[w] # "finally" => pc'[w] = "dead"
          /\ pc[w] = "dead" => pc'[w] = "dead"
      ]_vars

\* a worker in the error box of a failed actuation, after counted rounds
ActuationFailureFatalWitness ==
    \E w \in Threads :
        /\ pc[w] = "error_box"
        /\ Cur(w).action \in Actuations
        /\ ~is_hunting
        /\ hunt_count > 0

\* C12 (Spec): a worker begins an action only at the head of the for loop,
\* while is_hunting, and it is the action at its loop index; the index
\* moves only by one, when the action at the index has ended (its wait is
\* over or its round has been counted), or back to 1; the for loop is left
\* only when the Timeline is exhausted or is_hunting is false, and a pass
\* begins only from the while test with is_hunting true, at index 1.
TimelineOrder ==
    [][\A w \in Threads :
          /\ pc[w] = "for_head" /\ pc'[w] \notin {"for_head", "while"}
                => /\ idx[w] \in 1..Len(timeline_actions)
                   /\ idx'[w] = idx[w]
                   /\ is_hunting
          /\ idx'[w] # idx[w]
                => \/ /\ idx'[w] = idx[w] + 1
                      /\ pc[w] \in {"wait", "round_done"}
                      /\ pc'[w] = "for_head"
                   \/ /\ idx'[w] = 1
                      /\ pc[w] \in {"while", "result_box", "error_box",
                                  "except_box"}
          /\ pc[w] = "for_head" /\ pc'[w] = "while"
                => idx[w] = Len(timeline_actions) + 1 \/ ~is_hunting
          /\ pc[w] = "while" /\ pc'[w] = "for_head"
                => is_hunting /\ idx'[w] = 1
          /\ pc[w] # "for_head" /\ pc'[w] = "for_head"
                => pc[w] \in {"while", "wait", "round_done"}
      ]_vars

\* the only worker ever started has completed the last action of the
\* Timeline and is at the head of the loop again, at the first action
TimelineOrderWitness ==
    /\ nthreads = 1
    /\ pc[1] = "for_head"
    /\ idx[1] = 1
    /\ last_done = Len(timeline_actions)
    /\ is_hunting

\* C13 as stated (Spec): a worker moves on to the next Timeline action only
\* out of the wait of the current action, when that wait has elapsed or has
\* been cancelled, for every action that carries a delay.
DelayBeforeNextAction ==
    [][\A w \in Threads :
          idx'[w] = idx[w] + 1 /\ Cur(w).delay > 0
             => pc[w] = "wait" /\ ~WaitContinues(w)
      ]_vars

\* C14 as stated (Spec): when _analyze_regions has returned, hunt_count
\* grows by the success_count of the outcome; an outcome with has_failure
\* clears is_hunting and goes through the result message box to
\* on_hunt_result, which opens the adjudication dialog with its failed
\* regions, and the worker ends; an outcome without has_failure reports
\* progress with the new hunt_count and the worker continues the loop.
AnalysisOutcomeHandling ==
    [][\A w \in Threads :
          /\ pc[w] = "round_done" /\ pc'[w] # "round_done"
                => /\ hunt_count' = hunt_count + analysis_result[w].success_count
                   /\ analysis_result[w].has_failure
                         => ~is_hunting' /\ pc'[w] = "result_box"
                   /\ ~analysis_result[w].has_failure
                         => /\ hunt_count_var' = hunt_count'
                            /\ pc'[w] = "for_head"
                            /\ is_hunting' = is_hunting
          /\ pc[w] = "result_box" /\ pc'[w] # "result_box"
                => /\ dialog' = Len(analysis_result[w].failed_regions)
                   /\ pc'[w] = "finally"
      ]_vars

\* the step in which worker w counts the round that has just returned
CountsRound(w) == pc[w] = "round_done" /\ pc'[w] # "round_done"

\* C15 as stated (SpecRound): hunt_count is the number of successful rounds:
\* it grows by one when a round without failure is counted and does not
\* change otherwise.
CountsSuccessfulRounds ==
    [][ /\ \A w \in Threads :
              CountsRound(w) =>
                  hunt_count' = hunt_count +
                      (IF analysis_result[w].has_failure THEN 0 ELSE 1)
        /\ (\A w \in Threads : ~CountsRound(w)) => hunt_count' = hunt_count
      ]_vars

\* C15 amended (SpecRound): hunt_count is the number of matched regions:
\* when a round is counted, with or without failure, hunt_count grows by the
\* number of regions that matched in the last attempt of the round (0 when
\* that attempt captured nothing or no attempt was made), and it does not
\* change otherwise.
CountsMatchedRegions ==
    [][ /\ \A w \in Threads :
              CountsRound(w) =>
                  hunt_count' = hunt_count +
                      (IF round_log[w] = <<>> THEN 0
                       ELSE Cardinality(LastAttempt(w).matched))
        /\ (\A w \in Threads : ~CountsRound(w)) => hunt_count' = hunt_count
      ]_vars

\* a halted round of two regions, one of them matched, has been counted:
\* hunt_count is 1 although no round has succeeded
CountsMatchedRegionsWitness ==
    \E w \in Threads :
        /\ pc[w] = "result_box"
        /\ analysis_result[w].success_count = 1
        /\ analysis_result[w].total_regions = 2
        /\ hunt_count = 1

\* C16 as stated (Spec): while is_hunting is true, hunt_count changes only
\* in a step of a worker that counts a round.
SingleWriter ==
    [][ is_hunting /\ hunt_count' # hunt_count
           => \E w \in Threads : CountsRound(w) ]_vars

\* the operator rules the detection of the open dialog a false positive
RulesMisjudge ==
    dialog > 0 /\ dialog' = -1 /\ hunt_count_var' = hunt_count_var + dialog

\* C17 as stated (Spec): the step that rules a detection a false positive
\* adds the number of failed regions to hunt_count, the count that every
\* later progress and run-stopped notification reports.
MisjudgeAdjustsCount ==
    [][ RulesMisjudge => hunt_count' = hunt_count + dialog ]_vars

\* the positions a worker reaches through _handle_analysis_failure
DetectionHandling == {"result_box", "except_box"}

\* C18 as stated (Spec): the detection-halt handling (_handle_analysis_failure,
\* which starts the shiny alert) is never entered with the outcome of a
\* capture fault, and _handle_error is never reached with the outcome of a
\* detection.
DetectionDistinctFromFault ==
    \A w \in Threads :
        /\ pc[w] \in DetectionHandling
              => analysis_result[w].failed_regions # <<CaptureFailed>>
        /\ pc[w] \in {"error_box", "except_box"}
              => analysis_result[w].kind # "full"

\* C19 as stated (SpecReferences): the detection-halt handling is never entered
\* with the no-reference outcome, and an attempt that evaluates captured
\* regions while the reference set is empty is neither retried nor turned
\* into an outcome that names failed regions: the round ends in the fault
\* report.
EmptyReferenceIsFault ==
    [][\A w \in Threads :
          /\ pc'[w] \in DetectionHandling
                => analysis_result'[w].failed_regions # <<NoReference>>
          /\ ( /\ pc[w] = "capture" /\ pc'[w] # "capture"
               /\ reference_images = <<>>
               /\ round_log'[w][Len(round_log'[w])].captured # {} )
                => /\ pc'[w] # "retry_wait"
                   /\ analysis_result'[w].kind # "full"
      ]_vars

\* C20 (SpecRound): for every attempt of a round in which the capture
\* returned no region: if it is attempt retry_count + 1, the round has
\* returned has_failure = true, success_count = 0 and failed_regions made of
\* the one capture-failed entry (no failed image); if it is an earlier
\* attempt, the round has not returned on it: the worker is in the retry
\* wait before the next attempt, or past that wait in the next attempt, or
\* later attempts are in the log.
CaptureFailureHandling ==
    \A w \in Threads : \A j \in 1..Len(round_log[w]) :
        round_log[w][j].captured = {} =>
            IF j = retry_count + 1
            THEN /\ j = Len(round_log[w])
                 /\ pc[w] = "round_done"
                 /\ analysis_result[w].has_failure
                 /\ analysis_result[w].success_count = 0
                 /\ analysis_result[w].failed_regions = <<CaptureFailed>>
                 /\ analysis_result[w].failed_images = <<>>
            ELSE /\ j < retry_count + 1
                 /\ j = Len(round_log[w])
                       => /\ attempt[w] = j
                          /\ \/ pc[w] = "retry_wait"
                             \/ pc[w] = "capture" /\ wait_left[w] = 0

\* with retry_count = 1: the capture failed on the first attempt, the round
\* went on to the second, the capture failed again and the round returned
\* the capture-failed outcome
CaptureFailureHandlingWitness ==
    \E w \in Threads :
        /\ retry_count = 1
        /\ RoundOver(w)
        /\ Len(round_log[w]) = 2
        /\ round_log[w][1].captured = {}
        /\ round_log[w][2].captured = {}
        /\ analysis_result[w].failed_regions = <<CaptureFailed>>

\* C21 as stated (SpecEngine): while the Timeline is empty or the reference
\* set is empty, no step puts the engine into the running state and no
\* worker thread is created.
ConfigurationFaultPreventsRun ==
    [][ (timeline_actions = <<>> \/ reference_images = <<>>)
           => /\ is_hunting' => is_hunting
              /\ nthreads' = nthreads ]_vars

\* C22 (Spec): every fault of a worker ends in _handle_error with the run
\* terminated: a failed actuation and a round whose capture failed on every
\* attempt take the worker to the error box with is_hunting cleared and
\* hunt_count as accumulated; the worker leaves the error box only by
\* reporting that hunt_count through on_hunt_stop, with nothing added or
\* lost; and a worker reaches its end only from the while test, from the
\* result box of a detection or from such a report, never from a fault
\* directly.
FaultPropagation ==
    [][\A w \in Threads :
          /\ pc[w] = "act" /\ pc'[w] \notin {"act", "wait"}
                => /\ pc'[w] = "error_box"
                   /\ ~is_hunting'
                   /\ hunt_count' = hunt_count
          /\ ( /\ pc[w] = "round_done" /\ pc'[w] # "round_done"
               /\ analysis_result[w].failed_regions = <<CaptureFailed>> )
                => /\ pc'[w] = "except_box"
                   /\ ~is_hunting'
                   /\ hunt_count' = hunt_count
          /\ pc[w] \in {"error_box", "except_box"} /\ pc'[w] # pc[w]
                => /\ pc'[w] = "finally"
                   /\ hunt_count_var' = hunt_count
                   /\ hunt_count' = hunt_count
          /\ pc'[w] = "finally" /\ pc[w] # "finally"
                => pc[w] \in {"while", "result_box", "error_box",
                              "except_box"}
      ]_vars

\* a worker in the error box after its capture failed on every attempt of a
\* round, the run terminated, with rounds counted before
FaultPropagationWitness ==
    \E w \in Threads :
        /\ pc[w] = "except_box"
        /\ analysis_result[w].failed_regions = <<CaptureFailed>>
        /\ ~is_hunting
        /\ hunt_count > 0
        /\ hunt_count_var = hunt_count

\* C23 as stated (Spec): once stop_hunting has emitted on_hunt_stop (the
\* control surface is back from the join), a worker that was alive when
\* that stop cleared is_hunting adds nothing to hunt_count and enters no
\* result box of a detection.
StopCountFinal ==
    [][\A w \in Threads :
          ( /\ req[w] = "stop" /\ gui_pc # "join"
            /\ pc[w] = "round_done" /\ pc'[w] # "round_done" )
                => /\ hunt_count' = hunt_count
                   /\ pc'[w] # "result_box"
      ]_vars

\* C24 as stated (SpecShared): while a run is active no step changes the
\* enabled regions of the registry or the set of reference images.
SharedResourcesFrozen ==
    [][ is_hunting => /\ reference_images' = reference_images
                      /\ screenshot_regions' = screenshot_regions ]_vars

\* C25 as stated (SpecShared): while a run is active and its worker is alive,
\* no step changes the Timeline sequence that the worker iterates.
TimelineStable ==
    [][ (is_hunting /\ \E w \in Threads : Alive(w))
           => timeline_actions' = timeline_actions ]_vars

\* C26 as stated (SpecSnapshot): once the run is paused and its worker has
\* ended, the hunt_count of the pause snapshot is the hunt_count of the
\* engine.
PauseSnapshotSufficient ==
    ( /\ ~pause_state.empty
      /\ is_paused /\ ~is_hunting
      /\ \A w \in Threads : ~Alive(w) )
        => pause_state.hunt_count = hunt_count

\* C27 as stated (SpecSnapshot, where only the import writes the registry):
\* importing the pause snapshot leaves every region with the enabled flag
\* it had when the snapshot was saved.
SnapshotRegionRoundTrip ==
    [][ ~pause_state.empty => screenshot_regions' = screenshot_regions ]_vars

\* reference n on its own satisfies the three thresholds
MatchesAlone(n) ==
    /\ metrics[n].cs >= thresholds.color_similarity
    /\ metrics[n].ss >= thresholds.ssim_threshold
    /\ metrics[n].cd <= thresholds.color_difference

\* the overall score of reference n on its own
ScoreAlone(n) == (metrics[n].cs + metrics[n].ss) \div 2

\* an evaluation against two references of which exactly one matches alone
OneOfTwoMatches ==
    /\ analysis # NoAnalysis
    /\ Len(reference_images) = 2
    /\ \E n \in Range(reference_images) :
          /\ MatchesAlone(n)
          /\ \A o \in Range(reference_images) \ {n} : ~MatchesAlone(o)

\* C28 as stated (SpecMatch): with two references of which exactly one
\* satisfies the three thresholds on its own, is_match is true and
\* best_reference is the name of that reference.
BestReferenceIsMatching ==
    OneOfTwoMatches =>
        /\ analysis.is_match
        /\ MatchesAlone(analysis.best_reference)

\* C28 (SpecMatch): with two references of which exactly one satisfies the
\* three thresholds on its own, is_match is true and best_reference is the
\* reference with the greater overall score (color_similarity +
\* structural_similarity) / 2, the one loaded first when the scores are
\* equal; it is the matching reference whenever that one has the strictly
\* greater score, whatever the color differences.
BestReferenceMaxScore ==
    OneOfTwoMatches =>
        LET a == reference_images[1]
            b == reference_images[2]
        IN  /\ analysis.is_match
            /\ analysis.best_reference =
                  IF ScoreAlone(a) >= ScoreAlone(b) THEN a ELSE b
            /\ \A n \in {a, b} :
                  ( /\ MatchesAlone(n)
                    /\ \A o \in {a, b} \ {n} : ScoreAlone(n) > ScoreAlone(o) )
                      => analysis.best_reference = n

\* the matching reference was loaded second and the other one has the same
\* overall score but too large a color difference: is_match is true and
\* best_reference names the reference that does not match
BestReferenceMaxScoreWitness ==
    /\ OneOfTwoMatches
    /\ analysis.is_match
    /\ ~MatchesAlone(analysis.best_reference)
    /\ analysis.best_reference = reference_images[1]
    /\ ScoreAlone(reference_images[1]) = ScoreAlone(reference_images[2])
    /\ metrics[reference_images[1]].cd > thresholds.color_difference

\* the failure values of the three metric functions: 0.0 for the two
\* similarities, float('inf') for the color difference
MetricFailsEverywhere ==
    \/ \A n \in Range(reference_images) : metrics[n].cs = 0
    \/ \A n \in Range(reference_images) : metrics[n].ss = 0
    \/ \A n \in Range(reference_images) : metrics[n].cd = Inf

\* C31 (SpecMatch): when one of the metrics has its failure value (0 for
\* color_similarity, 0 for structural_similarity, +infinity for
\* color_difference) against every reference, the evaluation still returns
\* a result and its is_match is false, for every finite color_difference
\* threshold and all positive similarity thresholds.
MetricFailureNeverMatches ==
    ( /\ analysis # NoAnalysis
      /\ thresholds.color_similarity > 0
      /\ thresholds.ssim_threshold > 0
      /\ thresholds.color_difference \in Levels
      /\ MetricFailsEverywhere )
        => /\ analysis.n_results = Len(reference_images)
           /\ ~analysis.is_match

\* the color difference failed against each of NumRefs references whose
\* similarities are maximal, under the most permissive finite threshold
MetricFailureNeverMatchesWitness ==
    /\ analysis # NoAnalysis
    /\ Len(reference_images) = NumRefs
    /\ \A n \in Range(reference_images) :
          /\ metrics[n].cd = Inf
          /\ metrics[n].cs = 2 * MaxLevel
          /\ metrics[n].ss = 2 * MaxLevel
    /\ thresholds.color_similarity > 0
    /\ thresholds.ssim_threshold > 0
    /\ thresholds.color_difference = 2 * MaxLevel
    /\ ~analysis.is_match

\* C34 as stated (SpecMatch): the multi-reference verdict is is_match = true
\* if and only if at least one reference satisfies the three thresholds on
\* its own.
MultiIffSingle ==
    analysis # NoAnalysis =>
        ( analysis.is_match <=>
            \E n \in Range(reference_images) : MatchesAlone(n) )

\* C34 (SpecMatch): the multi-reference verdict is is_match = true whenever
\* at least one reference satisfies the three thresholds on its own; it is
\* true only if each threshold is satisfied by some reference, not
\* necessarily the same one, and it is false only if one of the thresholds
\* is satisfied by no reference; with a single reference it is the verdict
\* of that reference.
MultiVersusSingle ==
    analysis # NoAnalysis =>
        LET R == Range(reference_images)
        IN  /\ (\E n \in R : MatchesAlone(n)) => analysis.is_match
            /\ analysis.is_match =>
                  /\ \E n \in R : metrics[n].cs >= thresholds.color_similarity
                  /\ \E n \in R : metrics[n].ss >= thresholds.ssim_threshold
                  /\ \E n \in R : metrics[n].cd <= thresholds.color_difference
            /\ ~analysis.is_match =>
                  \/ \A n \in R : metrics[n].cs < thresholds.color_similarity
                  \/ \A n \in R : metrics[n].ss < thresholds.ssim_threshold
                  \/ \A n \in R : metrics[n].cd > thresholds.color_difference
            /\ Len(reference_images) = 1 =>
                  (analysis.is_match <=> MatchesAlone(reference_images[1]))

\* a positive verdict where the first reference alone reaches the color
\* similarity threshold and fails on the color difference, and the last one
\* is within the color difference and fails on the color similarity
MultiVersusSingleWitness ==
    /\ analysis # NoAnalysis
    /\ analysis.is_match
    /\ Len(reference_images) = NumRefs
    /\ \A n \in Range(reference_images) : ~MatchesAlone(n)
    /\ metrics[reference_images[1]].cs >= thresholds.color_similarity
    /\ metrics[reference_images[1]].cd > thresholds.color_difference
    /\ metrics[reference_images[NumRefs]].cd <= thresholds.color_difference
    /\ metrics[reference_images[NumRefs]].cs < thresholds.color_similarity

\* C33 as stated (SpecRound): a round returns has_failure = false only if its
\* last attempt captured every enabled region and every one of them
\* matched, with success_count and total_regions equal to the number of
\* enabled regions.
EveryEnabledRegionExamined ==
    \A w \in Threads :
        (RoundOver(w) /\ ~analysis_result[w].has_failure) =>
            /\ LastAttempt(w).captured = screenshot_regions
            /\ LastAttempt(w).matched = screenshot_regions
            /\ analysis_result[w].success_count =
                  Cardinality(screenshot_regions)
            /\ analysis_result[w].total_regions =
                  Cardinality(screenshot_regions)

\* C32 as stated (Spec): a running hunt (is_hunting true) is ended only by a
\* step of the control surface (the stop or pause request) or by a worker
\* entering the handling of a detection or of a fault; no other step of a
\* worker clears is_hunting, so that the workers of the run leave the loop
\* for no other reason.
HuntContinues ==
    [][ (is_hunting /\ ~is_hunting')
           => \/ pc' = pc
              \/ \E w \in Threads :
                    /\ pc'[w] \in {"result_box", "except_box", "error_box"}
                    /\ pc'[w] # pc[w]
      ]_vars

\* a step in which worker w delivers a callback: on_hunt_progress from
\* _log_progress at a Timeline step or at the end of a round, on_hunt_stop
\* from _handle_error, on_hunt_result after the result box
Delivers(w) ==
    \/ pc[w] = "for_head" /\ pc'[w] \notin {"for_head", "while"}
    \/ pc[w] = "round_done" /\ pc'[w] # "round_done"
    \/ pc[w] \in {"error_box", "except_box", "result_box"}
          /\ pc'[w] = "finally"

\* C35 as stated (SpecEngine): while start_hunting has started the worker of
\* a run and has not yet delivered on_hunt_start, that worker delivers no
\* progress, run-stopped or confirmation-outcome callback.
RunStartedFirst ==
    [][ gui_pc = "on_hunt_start" => ~Delivers(hunt_thread) ]_vars

\* C36 as stated (Spec): once stop_hunting has emitted on_hunt_stop for a
\* run (the control surface is back from the join), no worker that was alive
\* when that stop cleared is_hunting emits on_hunt_stop again from
\* _handle_error.
RunStoppedOnce ==
    [][\A w \in Threads :
          (req[w] = "stop" /\ gui_pc # "join")
              => ~( /\ pc[w] \in {"error_box", "except_box"}
                    /\ pc'[w] = "finally" )
      ]_vars

\* C37 as stated (Spec): a step of start_auto_hunt whose start_hunting
\* rejects the request (the engine is already running, or no reference image
\* is loaded) leaves hunt_count, the running state, the worker threads and
\* the engine configuration as they were.
RejectedStartChangesNothing ==
    [][ (GuiStart /\ (is_hunting \/ reference_images = <<>>))
           => /\ hunt_count' = hunt_count
              /\ is_hunting' = is_hunting
              /\ nthreads' = nthreads
              /\ retry_count' = retry_count
              /\ timeline_actions' = timeline_actions
      ]_vars

\* C38 as stated (SpecCycle): a worker that was alive when pause_hunting or
\* stop_hunting cleared is_hunting eventually leaves _hunt_loop (its thread
\* ends), whatever the control surface does afterwards.
StoppedWorkerTerminates ==
    \A w \in Threads :
        (req[w] \in {"pause", "stop"}) ~> (pc[w] = "dead")

====
